---- MODULE Spec2Model ----
(***************************************************************************)
(* A model of content_splitter/split_content.py: the HTML fragment         *)
(* tracker (HTMLFragmentManager), the HTML splitter (split_html_content),  *)
(* the text splitter (split_text_content) and the dispatcher               *)
(* (split_content).                                                        *)
(*                                                                         *)
(* A Python str is a sequence of characters; a character is a one-letter   *)
(* string.  Three letters stand for characters outside ASCII: "E" for      *)
(* U+00E9 (two bytes in UTF-8, not whitespace), "N" for U+00A0 (two bytes, *)
(* whitespace; U+0085 behaves the same) and "W" for U+2003 (three bytes,   *)
(* whitespace, as the other Unicode spaces of three bytes).  Every other   *)
(* letter is the ASCII character itself.  Python positions are 0-based and *)
(* are kept 0-based here.                                                  *)
(*                                                                         *)
(* A generator runs only while its consumer asks for the next fragment: a  *)
(* step of the model runs the generator from where it stands (the entry,   *)
(* the head of its loop, or a yield at which it is suspended) to the next  *)
(* yield, the next loop head, or its end.                                  *)
(***************************************************************************)
EXTENDS Integers, Sequences, FiniteSets, TLC

VARIABLES
    entry,            \* which generator function was called
    source_type,      \* Python type of the source argument
    source,           \* the source argument (a str; <<>> for a non-str)
    max_length,       \* the max_length argument
    pc,               \* where the generator stands: at the entry of a function (its
                      \* name), at the head of a loop ("html", line 76; "text",
                      \* line 133), suspended at the yield of a line ("yield_89",
                      \* ...), "done" or "raised"
    raised,           \* the exception that ended the generator, or "none"
    out,              \* the fragments yielded so far, in yield order
    pos,              \* split_html_content: scan position
    stack,            \* fm.stack
    saved_tags,       \* fm.saved_tags
    current_fragment, \* fm.current_fragment / split_text_content's list
    current_length,   \* fm.current_length / split_text_content's counter
    sentences,        \* split_text_content: the sentences
    idx,              \* split_text_content: number of sentences dealt with
    full_tag,         \* split_html_content: the local full_tag (line 83)
    text,             \* split_html_content: the local text (line 106)
    words,            \* split_text_content: the local words (line 136)
    widx,             \* split_text_content: number of words the loop of line 140
                      \* has taken
    word_fragment,    \* split_text_content: the local word_fragment
    word_length,      \* split_text_content: the local word_length
    open_at_yield,    \* history: fm.saved_tags at each yield of the HTML splitter
    units             \* history: per HTML fragment, the source pieces added to it

vars == <<entry, source_type, source, max_length, pc, raised, out, pos, stack,
          saved_tags, current_fragment, current_length, sentences, idx,
          full_tag, text, words, widx, word_fragment, word_length,
          open_at_yield, units>>

(***************************************************************************)
(* Bounds of the model.                                                    *)
(***************************************************************************)
MaxHtmlPieces == 3
MaxTextPieces == 5
MaxContentPieces == 3
MaxScanPieces == 2
MaxLimit == 9

(***************************************************************************)
(* Strings.                                                                *)
(***************************************************************************)
\* len(c.encode("utf-8")) of one character
CharBytes(c) == IF c \in {"E", "N"} THEN 2 ELSE IF c = "W" THEN 3 ELSE 1

\* len(s.encode("utf-8"))
RECURSIVE ByteLen(_)
ByteLen(s) == IF s = <<>> THEN 0 ELSE CharBytes(Head(s)) + ByteLen(Tail(s))

\* "".join(parts)
RECURSIVE Join(_)
Join(parts) == IF parts = <<>> THEN <<>> ELSE Head(parts) \o Join(Tail(parts))

\* " ".join(parts)
RECURSIVE JoinSpace(_)
JoinSpace(parts) ==
    IF parts = <<>> THEN <<>>
    ELSE IF Len(parts) = 1 THEN Head(parts)
    ELSE Head(parts) \o <<" ">> \o JoinSpace(Tail(parts))

\* str.isspace() of one character, which is also what strip(), split() and \s
\* of re take for whitespace: space, \t, \n, \r, \f, the control characters
\* VT (0x0B), FS (0x1C), GS (0x1D), RS (0x1E), US (0x1F), written raw in the
\* second row of the set, and the whitespace outside ASCII
IsSpace(c) == c \in {" ", "\t", "\n", "\r", "\f",
                     "", "", "", "", "",
                     "N", "W"}

\* s[i:j] for 0 <= i, j
Slice(s, i, j) == SubSeq(s, i + 1, IF j > Len(s) THEN Len(s) ELSE j)

\* s.find(c, start): the 0-based index of the first c at or after start, or -1
RECURSIVE Find(_, _, _)
Find(s, c, start) ==
    IF start >= Len(s) THEN -1
    ELSE IF s[start + 1] = c THEN start
    ELSE Find(s, c, start + 1)

\* s.lstrip()
RECURSIVE LStrip(_)
LStrip(s) ==
    IF s # <<>> /\ IsSpace(Head(s)) THEN LStrip(Tail(s)) ELSE s

\* s.rstrip()
RECURSIVE RStrip(_)
RStrip(s) ==
    IF s # <<>> /\ IsSpace(s[Len(s)]) THEN RStrip(SubSeq(s, 1, Len(s) - 1)) ELSE s

\* s.strip()
Strip(s) == RStrip(LStrip(s))

\* the length of the leading run of non-space characters of s
RECURSIVE WordLen(_)
WordLen(s) ==
    IF s = <<>> \/ IsSpace(Head(s)) THEN 0 ELSE 1 + WordLen(Tail(s))

\* s.split(): the maximal runs of non-space characters
RECURSIVE SplitWs(_)
SplitWs(s) ==
    LET t == LStrip(s) IN
    IF t = <<>> THEN <<>>
    ELSE <<SubSeq(t, 1, WordLen(t))>> \o SplitWs(SubSeq(t, WordLen(t) + 1, Len(t)))

\* s.startswith("/")
StartsWithSlash(s) == s # <<>> /\ Head(s) = "/"

\* a variant of EndsWithSlash that takes no tag for self-closing
EndsWithSlashNever(s) == FALSE

\* s.endswith("/")
EndsWithSlash(s) == s # <<>> /\ s[Len(s)] = "/"

(***************************************************************************)
(* HTMLFragmentManager.                                                    *)
(***************************************************************************)
\* a variant of OpeningTags that puts the innermost tag first
RECURSIVE OpeningTagsInnermostFirst(_)
OpeningTagsInnermostFirst(saved) ==
    IF saved = <<>> THEN <<>>
    ELSE saved[Len(saved)][1] \o OpeningTagsInnermostFirst(SubSeq(saved, 1, Len(saved) - 1))

\* get_tag_hierarchy()[0]: the saved raw opening tags, outermost first
RECURSIVE OpeningTags(_)
OpeningTags(saved) ==
    IF saved = <<>> THEN <<>> ELSE Head(saved)[1] \o OpeningTags(Tail(saved))

\* a variant of ClosingTags that closes the outermost tag first
RECURSIVE ClosingTagsOutermostFirst(_)
ClosingTagsOutermostFirst(stk) ==
    IF stk = <<>> THEN <<>>
    ELSE <<"<", "/">> \o Head(stk) \o <<">">> \o ClosingTagsOutermostFirst(Tail(stk))

\* get_tag_hierarchy()[1]: "</name>" for each stack entry, innermost first
RECURSIVE ClosingTags(_)
ClosingTags(stk) ==
    IF stk = <<>> THEN <<>>
    ELSE <<"<", "/">> \o stk[Len(stk)] \o <<">">>
         \o ClosingTags(SubSeq(stk, 1, Len(stk) - 1))

\* get_tag_hierarchy(): (opening_tags, closing_tags)
GetTagHierarchy(saved, stk) == <<OpeningTags(saved), ClosingTags(stk)>>

\* would_exceed_limit(content)
WouldExceedLimit(cur_len, stk, content, limit) ==
    cur_len + ByteLen(content) + ByteLen(ClosingTags(stk)) > limit

\* a variant of CreateFragment that does not append the closing tags
CreateFragmentUnclosed(frag, stk) == Join(frag)

\* create_fragment(): the returned string
CreateFragment(frag, stk) ==
    IF frag = <<>> THEN <<>> ELSE Join(Append(frag, ClosingTags(stk)))

\* create_fragment(): fm.current_fragment after the call (line 39 appends the
\* closing tags to the list itself)
ClosedFragment(frag, stk) ==
    IF frag = <<>> THEN frag ELSE Append(frag, ClosingTags(stk))

\* "<name>" for each saved record, outermost first
RECURSIVE BareOpeningTags(_)
BareOpeningTags(saved) ==
    IF saved = <<>> THEN <<>>
    ELSE <<"<">> \o Head(saved)[2] \o <<">">> \o BareOpeningTags(Tail(saved))

\* a variant of StartNewFragment that re-opens the tags by name, without their
\* attributes
StartNewFragmentFromNames(saved) == <<BareOpeningTags(saved)>>

\* start_new_fragment(): the new current_fragment
StartNewFragment(saved) == <<OpeningTags(saved)>>

\* a variant of StartNewLength that restarts the count at 0
StartNewLengthZero(saved) == 0

\* start_new_fragment(): the new current_length
StartNewLength(saved) == ByteLen(OpeningTags(saved))

\* a variant of ClosedStack that pops whatever tag is innermost
ClosedStackAnyName(stk, name) ==
    IF stk # <<>> THEN SubSeq(stk, 1, Len(stk) - 1) ELSE stk

\* handle_closing_tag(tag_name): the new stack
ClosedStack(stk, name) ==
    IF stk # <<>> /\ stk[Len(stk)] = name THEN SubSeq(stk, 1, Len(stk) - 1) ELSE stk

\* a variant of ClosedSaved that keeps the record of the closed tag
ClosedSavedKept(stk, saved, name) == saved

\* handle_closing_tag(tag_name): the new saved_tags
ClosedSaved(stk, saved, name) ==
    IF stk # <<>> /\ stk[Len(stk)] = name
    THEN (IF saved # <<>> THEN SubSeq(saved, 1, Len(saved) - 1) ELSE saved)
    ELSE saved

\* handle_opening_tag(full_tag, tag_name): the new stack
OpenedStack(stk, name) == Append(stk, name)

\* handle_opening_tag(full_tag, tag_name): the new saved_tags
OpenedSaved(saved, tag, name) == Append(saved, <<tag, name>>)

(***************************************************************************)
(* Inputs.                                                                 *)
(***************************************************************************)
\* every concatenation of at most n pieces
RECURSIVE Sources(_, _)
Sources(pieces, n) ==
    IF n = 0 THEN {<<>>}
    ELSE LET S == Sources(pieces, n - 1) IN S \cup {s \o p : s \in S, p \in pieces}

HtmlPieces ==
    { <<"<", "a", ">">>, <<"<", "/", "a", ">">>,
      <<"<", "b", " ", "c", ">">>, <<"<", "/", "b", ">">>,
      <<"<", "d", "/", ">">>, <<"<", "/", "a", " ", ">">>,
      <<"E">>, <<" ">>, <<"<">>, <<">">> }

Limits == (-1) .. MaxLimit

(***************************************************************************)
(* split_html_content.                                                     *)
(***************************************************************************)
\* a variant of NothingToSplit that lets max_length = 0 through
NothingToSplitBelowZero == source = <<>> \/ max_length < 0

\* the guard of lines 70, 123 and 174: not source or max_length <= 0
NothingToSplit == source = <<>> \/ max_length <= 0

\* lines 70-74: the guard, the fresh HTMLFragmentManager and pos = 0
HtmlStart ==
    /\ pc = "split_html_content"
    /\ pc' = IF NothingToSplit THEN "done" ELSE "html"
    /\ UNCHANGED <<entry, source_type, source, max_length, raised, out, pos, stack,
                   saved_tags, current_fragment, current_length, sentences, idx,
                   full_tag, text, words, widx, word_fragment, word_length,
                   open_at_yield, units>>

\* source[pos] == "<"
AtTag == pos < Len(source) /\ source[pos + 1] = "<"

\* a variant of TagEnd that takes the end of the source for the end of a tag
\* that has no ">"
TagEndOrSourceEnd ==
    IF Find(source, ">", pos) = -1 THEN Len(source) - 1 ELSE Find(source, ">", pos)

\* tag_end = source.find(">", pos)
TagEnd == Find(source, ">", pos)

\* full_tag = source[pos : tag_end + 1]
FullTag == Slice(source, pos, TagEnd + 1)

\* tag_content = full_tag[1:-1]
TagContent == SubSeq(FullTag, 2, Len(FullTag) - 1)

\* next_tag = source.find("<", pos)
NextTag == Find(source, "<", pos)

\* text = source[pos:] if next_tag == -1 else source[pos:next_tag]
Text == IF NextTag = -1 THEN Slice(source, pos, Len(source)) ELSE Slice(source, pos, NextTag)

\* a variant of Overflow that does not ask whether anything is buffered
OverflowEvenIfEmpty(content) ==
    WouldExceedLimit(current_length, stack, content, max_length)

\* lines 88 and 110: fm.would_exceed_limit(content) and fm.current_fragment
Overflow(content) ==
    /\ WouldExceedLimit(current_length, stack, content, max_length)
    /\ current_fragment # <<>>

\* yield fm.create_fragment() (lines 89, 111, 116): the fragment goes to the
\* consumer and the generator is suspended; line 39 has appended the closing tags
\* to fm.current_fragment
YieldFragment ==
    /\ out' = Append(out, CreateFragment(current_fragment, stack))
    /\ open_at_yield' = Append(open_at_yield, saved_tags)
    /\ units' = Append(units, IF out = <<>> THEN current_fragment
                              ELSE Tail(current_fragment))
    /\ current_fragment' = ClosedFragment(current_fragment, stack)

\* the loop continues into the tag branch and finds the tag's end
InTag == pc = "html" /\ pos < Len(source) /\ AtTag /\ TagEnd # -1

\* lines 77-89 from the loop head: the tag does not fit, the buffered fragment is
\* yielded and the generator is suspended at line 89
HtmlTagYield ==
    /\ InTag
    /\ Overflow(FullTag)
    /\ YieldFragment
    /\ full_tag' = FullTag
    /\ pos' = TagEnd + 1
    /\ pc' = "yield_89"
    /\ UNCHANGED <<entry, source_type, source, max_length, raised, stack, saved_tags,
                   current_length, sentences, idx, text, words, widx,
                   word_fragment, word_length>>

\* line 93 is reached: from the loop head when lines 88-90 yield nothing, or when
\* the generator is resumed after the yield of line 89
ProcessingTag == (InTag /\ ~Overflow(FullTag)) \/ pc = "yield_89"

\* full_tag at line 93
ProcessedTag == IF pc = "yield_89" THEN full_tag ELSE FullTag

\* tag_content at line 93
ProcessedTagContent == SubSeq(ProcessedTag, 2, Len(ProcessedTag) - 1)

\* pos at line 93 (line 85 has run before the yield)
PosAfterTag == IF pc = "yield_89" THEN pos ELSE TagEnd + 1

\* fm.current_fragment once lines 88-90 or 110-112 are over: restarted by
\* start_new_fragment when the generator is resumed after their yield
FragmentAfterFlush ==
    IF pc \in {"yield_89", "yield_111"} THEN StartNewFragment(saved_tags)
    ELSE current_fragment

\* fm.current_length once lines 88-90 or 110-112 are over
LengthAfterFlush ==
    IF pc \in {"yield_89", "yield_111"} THEN StartNewLength(saved_tags)
    ELSE current_length

\* lines 93-96: a closing tag
HtmlClosingTag ==
    /\ ProcessingTag
    /\ StartsWithSlash(ProcessedTagContent)
    /\ LET tag_name == Tail(SplitWs(ProcessedTagContent)[1]) IN
        /\ stack' = ClosedStack(stack, tag_name)
        /\ saved_tags' = ClosedSaved(stack, saved_tags, tag_name)
    /\ current_fragment' = Append(FragmentAfterFlush, ProcessedTag)
    /\ current_length' = LengthAfterFlush + ByteLen(ProcessedTag)
    /\ full_tag' = ProcessedTag
    /\ pos' = PosAfterTag
    /\ pc' = "html"
    /\ UNCHANGED <<entry, source_type, source, max_length, raised, out, sentences,
                   idx, text, words, widx, word_fragment, word_length,
                   open_at_yield, units>>

\* lines 97-101: an opening or a self-closing tag
HtmlOpeningTag ==
    /\ ProcessingTag
    /\ ~StartsWithSlash(ProcessedTagContent)
    /\ SplitWs(ProcessedTagContent) # <<>>
    /\ LET tag_name == SplitWs(ProcessedTagContent)[1] IN
        IF ~EndsWithSlash(ProcessedTagContent)
        THEN /\ stack' = OpenedStack(stack, tag_name)
             /\ saved_tags' = OpenedSaved(saved_tags, ProcessedTag, tag_name)
        ELSE UNCHANGED <<stack, saved_tags>>
    /\ current_fragment' = Append(FragmentAfterFlush, ProcessedTag)
    /\ current_length' = LengthAfterFlush + ByteLen(ProcessedTag)
    /\ full_tag' = ProcessedTag
    /\ pos' = PosAfterTag
    /\ pc' = "html"
    /\ UNCHANGED <<entry, source_type, source, max_length, raised, out, sentences,
                   idx, text, words, widx, word_fragment, word_length,
                   open_at_yield, units>>

\* line 98 on a tag whose content has no word: tag_content.split()[0] raises
\* IndexError
HtmlBadTag ==
    /\ ProcessingTag
    /\ ~StartsWithSlash(ProcessedTagContent)
    /\ SplitWs(ProcessedTagContent) = <<>>
    /\ current_fragment' = FragmentAfterFlush
    /\ current_length' = LengthAfterFlush
    /\ full_tag' = ProcessedTag
    /\ pos' = PosAfterTag
    /\ pc' = "raised"
    /\ raised' = "IndexError"
    /\ UNCHANGED <<entry, source_type, source, max_length, out, stack, saved_tags,
                   sentences, idx, text, words, widx, word_fragment, word_length,
                   open_at_yield, units>>

\* the loop continues into the text branch
InText == pc = "html" /\ pos < Len(source) /\ ~AtTag

\* pos = len(source) if next_tag == -1 else next_tag (line 107)
PosAfterText == IF NextTag = -1 THEN Len(source) ELSE NextTag

\* lines 104-111 from the loop head: the text run does not fit, the buffered
\* fragment is yielded and the generator is suspended at line 111
HtmlTextYield ==
    /\ InText
    /\ Strip(Text) # <<>>
    /\ Overflow(Text)
    /\ YieldFragment
    /\ text' = Text
    /\ pos' = PosAfterText
    /\ pc' = "yield_111"
    /\ UNCHANGED <<entry, source_type, source, max_length, raised, stack, saved_tags,
                   current_length, sentences, idx, full_tag, words, widx,
                   word_fragment, word_length>>

\* the text branch goes on without a yield, or the generator is resumed after the
\* yield of line 111
AddingText == (InText /\ ~(Strip(Text) # <<>> /\ Overflow(Text))) \/ pc = "yield_111"

\* text at line 109 or 113
AddedText == IF pc = "yield_111" THEN text ELSE Text

\* a variant of HtmlText that moves pos only when the text run is added
HtmlTextKeepsPosOnBlank ==
    /\ AddingText
    /\ IF Strip(AddedText) # <<>>
       THEN /\ current_fragment' = Append(FragmentAfterFlush, AddedText)
            /\ current_length' = LengthAfterFlush + ByteLen(AddedText)
            /\ pos' = IF pc = "yield_111" THEN pos ELSE PosAfterText
       ELSE UNCHANGED <<current_fragment, current_length, pos>>
    /\ text' = AddedText
    /\ pc' = "html"
    /\ UNCHANGED <<entry, source_type, source, max_length, raised, out, stack,
                   saved_tags, sentences, idx, full_tag, words, widx,
                   word_fragment, word_length, open_at_yield, units>>

\* lines 103-113: a text run up to the next "<" or the end of the source; a
\* whitespace-only run is skipped
HtmlText ==
    /\ AddingText
    /\ IF Strip(AddedText) # <<>>
       THEN /\ current_fragment' = Append(FragmentAfterFlush, AddedText)
            /\ current_length' = LengthAfterFlush + ByteLen(AddedText)
       ELSE UNCHANGED <<current_fragment, current_length>>
    /\ text' = AddedText
    /\ pos' = IF pc = "yield_111" THEN pos ELSE PosAfterText
    /\ pc' = "html"
    /\ UNCHANGED <<entry, source_type, source, max_length, raised, out, stack,
                   saved_tags, sentences, idx, full_tag, words, widx,
                   word_fragment, word_length, open_at_yield, units>>

\* the loop ends (line 76), or breaks at a "<" with no ">" after it (lines 79-81);
\* lines 115-116 yield what is buffered and the generator is suspended at line
\* 116, or it returns when nothing is buffered
HtmlFinish ==
    /\ pc = "html"
    /\ \/ pos >= Len(source)
       \/ (AtTag /\ TagEnd = -1)
    /\ IF current_fragment # <<>>
       THEN YieldFragment /\ pc' = "yield_116"
       ELSE UNCHANGED <<out, open_at_yield, units, current_fragment>> /\ pc' = "done"
    /\ UNCHANGED <<entry, source_type, source, max_length, raised, pos, stack,
                   saved_tags, current_length, sentences, idx, full_tag, text,
                   words, widx, word_fragment, word_length>>

\* resumed after the yield of line 116, the generator returns
HtmlReturn ==
    /\ pc = "yield_116"
    /\ pc' = "done"
    /\ UNCHANGED <<entry, source_type, source, max_length, raised, out, pos, stack,
                   saved_tags, current_fragment, current_length, sentences, idx,
                   full_tag, text, words, widx, word_fragment, word_length,
                   open_at_yield, units>>

HtmlNext == HtmlStart \/ HtmlTagYield \/ HtmlClosingTag \/ HtmlOpeningTag
            \/ HtmlBadTag \/ HtmlTextYield \/ HtmlText \/ HtmlFinish \/ HtmlReturn

\* the state before the generator's first step
InitWith(e, types, strs) ==
    /\ entry = e
    /\ source_type \in types
    /\ source \in (IF source_type = "str" THEN strs ELSE {<<>>})
    /\ max_length \in Limits
    /\ pc = e
    /\ raised = "none"
    /\ out = <<>>
    /\ pos = 0
    /\ stack = <<>>
    /\ saved_tags = <<>>
    /\ current_fragment = <<>>
    /\ current_length = 0
    /\ sentences = <<>>
    /\ idx = 0
    /\ full_tag = <<>>
    /\ text = <<>>
    /\ words = <<>>
    /\ widx = 0
    /\ word_fragment = <<>>
    /\ word_length = 0
    /\ open_at_yield = <<>>
    /\ units = <<>>

HtmlInit == InitWith("split_html_content", {"str"}, Sources(HtmlPieces, MaxHtmlPieces))

SpecHtml == HtmlInit /\ [][HtmlNext]_vars

(***************************************************************************)
(* split_text_content.                                                     *)
(***************************************************************************)
TextPieces == { <<"a">>, <<"E", "b">>, <<".">>, <<"?">>, <<" ">> }

\* the character class [.!?] of the pattern of line 127
IsBoundary(c) == c \in {".", "!", "?"}

\* the number of leading whitespace characters of s
RECURSIVE SpaceRun(_)
SpaceRun(s) ==
    IF s # <<>> /\ IsSpace(Head(s)) THEN 1 + SpaceRun(Tail(s)) ELSE 0

\* re.split(r"(?<=[.!?])\s+", s), with cur the part read since the last split:
\* a maximal whitespace run that follows ".", "!" or "?" separates two parts
RECURSIVE ReSplit(_, _)
ReSplit(cur, s) ==
    IF s = <<>> THEN <<cur>>
    ELSE IF cur # <<>> /\ IsBoundary(cur[Len(cur)]) /\ IsSpace(Head(s))
    THEN <<cur>> \o ReSplit(<<>>, SubSeq(s, SpaceRun(s) + 1, Len(s)))
    ELSE ReSplit(Append(cur, Head(s)), Tail(s))

\* [s.strip() for s in parts if s.strip()]
RECURSIVE StripNonEmpty(_)
StripNonEmpty(parts) ==
    IF parts = <<>> THEN <<>>
    ELSE (IF Strip(Head(parts)) # <<>> THEN <<Strip(Head(parts))>> ELSE <<>>)
         \o StripNonEmpty(Tail(parts))

\* line 128
SplitSentences(s) == StripNonEmpty(ReSplit(<<>>, s))

\* lines 144, 152, 159, 167: " ".join(fragment).strip()
JoinedFragment(fragment) == Strip(JoinSpace(fragment))

\* line 141: word_size = len((word + " ").encode("utf-8"))
WordSize(word) == ByteLen(word \o <<" ">>)

\* lines 140-153 from the head of the word loop, with i words taken, to where the
\* generator stops next: the yield of line 144 (the word just taken does not fit),
\* the yield of line 152 (no word is left), or line 153 without a yield
RECURSIVE WordLoop(_, _, _, _, _)
WordLoop(ws, i, wf, wl, limit) ==
    IF i >= Len(ws)
    THEN [line |-> IF wf # <<>> THEN 152 ELSE 153,
          widx |-> i, word_fragment |-> wf, word_length |-> wl]
    ELSE LET word == ws[i + 1] IN
         IF wl + WordSize(word) > limit
         THEN (IF wf # <<>>
               THEN [line |-> 144, widx |-> i + 1, word_fragment |-> wf,
                     word_length |-> wl]
               ELSE WordLoop(ws, i + 1, <<word>>, WordSize(word), limit))
         ELSE WordLoop(ws, i + 1, Append(wf, word), wl + WordSize(word), limit)

\* the word loop has run to r: the fragment of lines 144 or 152 is yielded, or the
\* sentence is over (line 153)
WordsRunTo(r) ==
    /\ widx' = r.widx
    /\ word_fragment' = r.word_fragment
    /\ word_length' = r.word_length
    /\ out' = IF r.line = 153 THEN out ELSE Append(out, JoinedFragment(r.word_fragment))
    /\ pc' = IF r.line = 144 THEN "yield_144"
             ELSE IF r.line = 152 THEN "yield_152" ELSE "text"
    /\ idx' = IF r.line = 153 THEN idx + 1 ELSE idx

\* lines 123-131
TextStart ==
    /\ pc = "split_text_content"
    /\ pc' = IF NothingToSplit THEN "done" ELSE "text"
    /\ sentences' = IF NothingToSplit THEN sentences ELSE SplitSentences(source)
    /\ UNCHANGED <<entry, source_type, source, max_length, raised, out, pos, stack,
                   saved_tags, current_fragment, current_length, idx,
                   full_tag, text, words, widx, word_fragment, word_length,
                   open_at_yield, units>>

\* the sentence of this iteration of the loop of line 133
Sentence == sentences[idx + 1]

\* a variant of TooLong that also sends a sentence of exactly limit bytes to the
\* word splitting
TooLongOrEqual(sentence, limit) == ByteLen(sentence) >= limit

\* line 135: len(sentence.encode("utf-8")) > max_length
TooLong(sentence, limit) == ByteLen(sentence) > limit

\* lines 135-152: a sentence longer than max_length is split on word boundaries,
\* up to the first yield
TextLongSentence ==
    /\ pc = "text"
    /\ idx < Len(sentences)
    /\ TooLong(Sentence, max_length)
    /\ words' = SplitWs(Sentence)
    /\ WordsRunTo(WordLoop(SplitWs(Sentence), 0, <<>>, 0, max_length))
    /\ UNCHANGED <<entry, source_type, source, max_length, raised, pos, stack,
                   saved_tags, current_fragment, current_length, sentences,
                   full_tag, text, open_at_yield, units>>

\* resumed after the yield of line 144: lines 145-146 restart word_fragment with
\* the word that did not fit, and the word loop goes on to its next yield
TextWords ==
    /\ pc = "yield_144"
    /\ WordsRunTo(WordLoop(words, widx, <<words[widx]>>, WordSize(words[widx]),
                           max_length))
    /\ UNCHANGED <<entry, source_type, source, max_length, raised, pos, stack,
                   saved_tags, current_fragment, current_length, sentences,
                   full_tag, text, words, open_at_yield, units>>

\* resumed after the yield of line 152: line 153 goes to the next sentence
TextWordsEnd ==
    /\ pc = "yield_152"
    /\ idx' = idx + 1
    /\ pc' = "text"
    /\ UNCHANGED <<entry, source_type, source, max_length, raised, out, pos, stack,
                   saved_tags, current_fragment, current_length, sentences,
                   full_tag, text, words, widx, word_fragment, word_length,
                   open_at_yield, units>>

\* line 157: current_length + sentence_length > max_length
SentenceOverflows == current_length + ByteLen(Sentence) > max_length

\* lines 155-159 from the loop head: the sentence does not fit, the buffered
\* fragment is yielded and the generator is suspended at line 159
TextSentenceYield ==
    /\ pc = "text"
    /\ idx < Len(sentences)
    /\ ~TooLong(Sentence, max_length)
    /\ SentenceOverflows
    /\ current_fragment # <<>>
    /\ out' = Append(out, JoinedFragment(current_fragment))
    /\ pc' = "yield_159"
    /\ UNCHANGED <<entry, source_type, source, max_length, raised, pos, stack,
                   saved_tags, current_fragment, current_length, sentences, idx,
                   full_tag, text, words, widx, word_fragment, word_length,
                   open_at_yield, units>>

\* lines 155-164: a sentence within max_length, when line 159 yields nothing or
\* when the generator is resumed after its yield
TextSentence ==
    /\ \/ /\ pc = "text"
          /\ idx < Len(sentences)
          /\ ~TooLong(Sentence, max_length)
          /\ ~(SentenceOverflows /\ current_fragment # <<>>)
       \/ pc = "yield_159"
    /\ IF SentenceOverflows
       THEN /\ current_fragment' = <<Sentence>>
            /\ current_length' = ByteLen(Sentence)
       ELSE /\ current_fragment' = Append(current_fragment, Sentence)
            /\ current_length' = current_length + ByteLen(Sentence)
    /\ idx' = idx + 1
    /\ pc' = "text"
    /\ UNCHANGED <<entry, source_type, source, max_length, raised, out, pos, stack,
                   saved_tags, sentences, full_tag, text, words, widx,
                   word_fragment, word_length, open_at_yield, units>>

\* lines 166-167: the loop is over; what is buffered is yielded and the generator
\* is suspended at line 167, or it returns when nothing is buffered
TextFinish ==
    /\ pc = "text"
    /\ idx >= Len(sentences)
    /\ out' = IF current_fragment # <<>>
              THEN Append(out, JoinedFragment(current_fragment)) ELSE out
    /\ pc' = IF current_fragment # <<>> THEN "yield_167" ELSE "done"
    /\ UNCHANGED <<entry, source_type, source, max_length, raised, pos, stack,
                   saved_tags, current_fragment, current_length, sentences, idx,
                   full_tag, text, words, widx, word_fragment, word_length,
                   open_at_yield, units>>

\* resumed after the yield of line 167, the generator returns
TextReturn ==
    /\ pc = "yield_167"
    /\ pc' = "done"
    /\ UNCHANGED <<entry, source_type, source, max_length, raised, out, pos, stack,
                   saved_tags, current_fragment, current_length, sentences, idx,
                   full_tag, text, words, widx, word_fragment, word_length,
                   open_at_yield, units>>

TextNext == TextStart \/ TextLongSentence \/ TextWords \/ TextWordsEnd
            \/ TextSentenceYield \/ TextSentence \/ TextFinish \/ TextReturn

TextInit == InitWith("split_text_content", {"str"}, Sources(TextPieces, MaxTextPieces))

SpecText == TextInit /\ [][TextNext]_vars

\* a call of split_html_content on a string with a positive max_length
ScanInit ==
    /\ InitWith("split_html_content", {"str"}, Sources(HtmlPieces, MaxScanPieces))
    /\ max_length > 0

SpecHtmlScan == ScanInit /\ [][HtmlNext]_vars

\* a call of either splitter
SplittersInit == HtmlInit \/ TextInit

SplittersNext == HtmlNext \/ TextNext

SpecSplitters == SplittersInit /\ [][SplittersNext]_vars

(***************************************************************************)
(* split_content.                                                          *)
(***************************************************************************)
ContentPieces ==
    { <<"<", "a", ">">>, <<"<", "/", "a", ">">>, <<"<", ">">>, <<"E", ".">>, <<" ">>,
      <<"">>, <<"N">>, <<"<", "!", "[">> }

SourceTypes == {"str", "NoneType", "int", "list", "dict"}

\* sub occurs in s as a contiguous run
HasRun(sub, s) ==
    \E i \in 0 .. (Len(s) - Len(sub)) : SubSeq(s, i + 1, i + Len(sub)) = sub

\* line 178: what BeautifulSoup(source, "html.parser").find() may answer. The
\* parser is a library outside the repository: it finds no element in a source
\* without "<", and may or may not find one otherwise.
MayFindElement == IF \E i \in 1 .. Len(source) : source[i] = "<" THEN BOOLEAN ELSE {FALSE}

\* line 178: the exceptions BeautifulSoup(source, "html.parser") may raise for a
\* str. The parser may reject a marked section, which "<![" opens, with
\* ParserRejectedMarkup; it reads everything else as tags, comments or text.
ParserMayRaise ==
    IF HasRun(<<"<", "!", "[">>, source) THEN {"ParserRejectedMarkup"} ELSE {}

\* line 178: an element was found, none was found, or the parser raised
ParserOutcomes ==
    {IF found THEN "element" ELSE "none" : found \in MayFindElement} \cup ParserMayRaise

\* lines 182-183: AttributeError and TypeError are caught and raised again as
\* TypeError; any other exception leaves split_content as it is
Reraised(exception) ==
    IF exception \in {"AttributeError", "TypeError"} THEN "TypeError" ELSE exception

\* lines 177-183 with the outcome of line 178: the call of one of the two
\* generators, or the exception that ends split_content
Dispatched(outcome) ==
    /\ pc' = IF outcome = "element" THEN "split_html_content"
             ELSE IF outcome = "none" THEN "split_text_content" ELSE "raised"
    /\ raised' = IF outcome \in {"element", "none"} THEN raised ELSE Reraised(outcome)

\* a variant of ContentStart that tests "not source or max_length <= 0" before
\* the type of source
ContentStartEmptyFirst ==
    /\ pc = "split_content"
    /\ IF NothingToSplit
       THEN pc' = "done" /\ raised' = raised
       ELSE IF source_type # "str"
       THEN pc' = "raised" /\ raised' = "TypeError"
       ELSE \E outcome \in ParserOutcomes : Dispatched(outcome)
    /\ UNCHANGED <<entry, source_type, source, max_length, out, pos, stack,
                   saved_tags, current_fragment, current_length, sentences, idx,
                   full_tag, text, words, widx, word_fragment, word_length,
                   open_at_yield, units>>

\* lines 172-183. An exception raised at line 178 ends split_content, through the
\* handler of line 182 when it is an AttributeError or a TypeError. The generators
\* called at lines 179 and 181 raise IndexError only, which the handler lets
\* through (the raising step is HtmlBadTag).
ContentStart ==
    /\ pc = "split_content"
    /\ IF source_type # "str"
       THEN pc' = "raised" /\ raised' = "TypeError"
       ELSE IF NothingToSplit
       THEN pc' = "done" /\ raised' = raised
       ELSE \E outcome \in ParserOutcomes : Dispatched(outcome)
    /\ UNCHANGED <<entry, source_type, source, max_length, out, pos, stack,
                   saved_tags, current_fragment, current_length, sentences, idx,
                   full_tag, text, words, widx, word_fragment, word_length,
                   open_at_yield, units>>

ContentNext == ContentStart \/ HtmlNext \/ TextNext

Entries == {"split_content", "split_html_content", "split_text_content"}

\* a call of any of the three entry points; only split_content is given a non-str
Init ==
    \E e \in Entries :
        InitWith(e, IF e = "split_content" THEN SourceTypes ELSE {"str"},
                 Sources(ContentPieces, MaxContentPieces))

Spec == Init /\ [][ContentNext]_vars

(***************************************************************************)
(* Vocabulary of the properties.                                           *)
(***************************************************************************)
\* the result of reading the tags of s from position p with the open tags stk:
\* ok is FALSE when a tag has no ">" or no name, or a closing tag does not name
\* the innermost open tag
RECURSIVE Replay(_, _, _)
Replay(s, p, stk) ==
    IF p >= Len(s) THEN [ok |-> TRUE, open |-> stk]
    ELSE IF s[p + 1] # "<"
    THEN Replay(s, IF Find(s, "<", p) = -1 THEN Len(s) ELSE Find(s, "<", p), stk)
    ELSE LET e == Find(s, ">", p)
             inside == SubSeq(s, p + 2, e)
             names == SplitWs(inside)
         IN  IF e = -1 \/ names = <<>> THEN [ok |-> FALSE, open |-> stk]
             ELSE IF Head(inside) = "/"
             THEN (IF stk # <<>> /\ stk[Len(stk)] = Tail(names[1])
                   THEN Replay(s, e + 1, SubSeq(stk, 1, Len(stk) - 1))
                   ELSE [ok |-> FALSE, open |-> stk])
             ELSE IF inside[Len(inside)] = "/" THEN Replay(s, e + 1, stk)
             ELSE Replay(s, e + 1, Append(stk, names[1]))

\* every tag of s is complete and named and every closing tag matches the
\* innermost open tag
WellNested(s) == Replay(s, 0, <<>>).ok

\* s is well nested and leaves no tag open
TagBalanced(s) == Replay(s, 0, <<>>) = [ok |-> TRUE, open |-> <<>>]

\* s has a whitespace-only text run at or after position p
RECURSIVE HasBlankRun(_, _)
HasBlankRun(s, p) ==
    IF p >= Len(s) THEN FALSE
    ELSE IF s[p + 1] = "<"
    THEN (IF Find(s, ">", p) = -1 THEN FALSE ELSE HasBlankRun(s, Find(s, ">", p) + 1))
    ELSE LET q == IF Find(s, "<", p) = -1 THEN Len(s) ELSE Find(s, "<", p) IN
         (\A i \in (p + 1) .. q : IsSpace(s[i])) \/ HasBlankRun(s, q)

\* the raw opening tags of the records r, outermost first
RECURSIVE RawTags(_)
RawTags(r) == IF r = <<>> THEN <<>> ELSE Head(r)[1] \o RawTags(Tail(r))

\* the pieces fragment k of the HTML splitter is made of: the re-opened tags, the
\* tags and text runs taken from the source, and the appended closing tags
FragmentPieces(k) ==
    (IF k > 1 THEN {open_at_yield[k - 1][i][1] : i \in 1 .. Len(open_at_yield[k - 1])}
     ELSE {})
    \cup {units[k][i] : i \in 1 .. Len(units[k])}
    \cup {<<"<", "/">> \o open_at_yield[k][i][2] \o <<">">> :
              i \in 1 .. Len(open_at_yield[k])}

\* the words of the fragments fs, fragment by fragment
RECURSIVE WordsOf(_)
WordsOf(fs) == IF fs = <<>> THEN <<>> ELSE SplitWs(Head(fs)) \o WordsOf(Tail(fs))

(***************************************************************************)
(* The properties.                                                         *)
(***************************************************************************)
\* C1: for a well-formed source, every fragment yielded by split_html_content
\* has at most max_length bytes, unless one of its pieces (a tag or a text run)
\* alone has more than max_length bytes.
C1_HtmlFragmentsWithinLimit ==
    (entry = "split_html_content" /\ TagBalanced(source)) =>
        \A k \in 1 .. Len(out) :
            \/ ByteLen(out[k]) <= max_length
            \/ \E piece \in FragmentPieces(k) : ByteLen(piece) > max_length

\* C2: every fragment yielded by split_text_content has at most max_length bytes,
\* unless it is a single word that alone has more than max_length bytes.
C2_TextFragmentsWithinLimit ==
    entry = "split_text_content" =>
        \A k \in 1 .. Len(out) :
            \/ ByteLen(out[k]) <= max_length
            \/ Len(SplitWs(out[k])) = 1

\* C3: when split_text_content is done, the words of its fragments, in yield
\* order, are the words of the source in their order.
C3_TextWordsPreserved ==
    (entry = "split_text_content" /\ pc = "done" /\ max_length > 0) =>
        WordsOf(out) = SplitWs(source)

\* C4: every fragment of split_html_content after the first begins with the raw
\* opening tags, outermost first, of the tags that were open when the previous
\* fragment was yielded, followed by what the fragment takes from the source.
C4_ReopensOpenTags ==
    entry = "split_html_content" =>
        \A k \in 2 .. Len(out) :
            LET start == RawTags(open_at_yield[k - 1]) \o Join(units[k]) IN
            /\ Len(start) <= Len(out[k])
            /\ SubSeq(out[k], 1, Len(start)) = start

\* C4 witness: a third fragment was yielded while two tags were open at the second
\* yield, the inner one written with an attribute
C4_Witness ==
    /\ entry = "split_html_content"
    /\ Len(out) >= 3
    /\ Len(open_at_yield[2]) = 2
    /\ open_at_yield[2][2] = << <<"<", "b", " ", "c", ">">>, <<"b">> >>

\* C5: for a source whose closing tags all match the innermost open tag, every
\* fragment yielded by split_html_content is tag-balanced on its own: read from an
\* empty stack, each closing tag matches the top and the stack is empty at the end.
C5_FragmentsBalanced ==
    (entry = "split_html_content" /\ WellNested(source)) =>
        \A k \in 1 .. Len(out) : TagBalanced(out[k])

\* C5 witness: a well nested source was split into at least two fragments, one of
\* them yielded with two tags open
C5_Witness ==
    /\ entry = "split_html_content"
    /\ WellNested(source)
    /\ pc = "done"
    /\ Len(out) >= 2
    /\ \E k \in 1 .. Len(out) :
           /\ Len(open_at_yield[k]) = 2
           /\ open_at_yield[k][1][2] = <<"a">>
           /\ open_at_yield[k][2][2] = <<"b">>

\* C6: split_html_content runs to completion on every string source: it raises no
\* error.
C6_HtmlNeverRaises ==
    entry = "split_html_content" => (pc # "raised" /\ raised = "none")

\* C7: for a tag-balanced source with no whitespace-only text run and fewer than
\* max_length bytes, split_html_content yields the source as its only fragment.
C7_SmallSourceOneFragment ==
    (/\ entry = "split_html_content"
     /\ pc = "done"
     /\ source # <<>>
     /\ TagBalanced(source)
     /\ ~HasBlankRun(source, 0)
     /\ ByteLen(source) < max_length) => out = <<source>>

\* s, trimmed, is not empty and has no ".", "!" or "?" followed by whitespace
SingleSentence(s) ==
    LET t == Strip(s) IN
    /\ t # <<>>
    /\ \A i \in 1 .. (Len(t) - 1) : ~(IsBoundary(t[i]) /\ IsSpace(t[i + 1]))

\* C8: for a source that is a single sentence of at most max_length bytes once
\* trimmed, split_text_content yields exactly one fragment, the trimmed source.
C8_SingleSentenceOneFragment ==
    (/\ entry = "split_text_content"
     /\ pc = "done"
     /\ SingleSentence(source)
     /\ ByteLen(Strip(source)) <= max_length) => out = <<Strip(source)>>

\* C8 witness: a sentence of several words, of exactly max_length bytes once
\* trimmed of the whitespace around it, came out as the only fragment
C8_Witness ==
    /\ entry = "split_text_content"
    /\ pc = "done"
    /\ SingleSentence(source)
    /\ Strip(source) # source
    /\ Len(SplitWs(source)) >= 2
    /\ ByteLen(Strip(source)) = max_length
    /\ out = <<Strip(source)>>

\* C9: for a source that is not a str, whatever max_length is, split_content
\* raises TypeError and has yielded no fragment.
C9_NonStringRaisesTypeError ==
    (entry = "split_content" /\ source_type # "str" /\ pc # "split_content") =>
        (pc = "raised" /\ raised = "TypeError" /\ out = <<>>)

\* C9 witness: TypeError was raised for a non-str source with max_length <= 0
C9_Witness ==
    /\ entry = "split_content"
    /\ source_type = "NoneType"
    /\ max_length <= 0
    /\ pc = "raised"
    /\ raised = "TypeError"

\* C10: for each of the three entry points, an empty str source, or a str source
\* with max_length <= 0, ends the generator with no fragment and no error.
C10_NothingToSplitYieldsNothing ==
    (/\ source_type = "str"
     /\ (source = <<>> \/ max_length <= 0)
     /\ pc # entry) => (pc = "done" /\ raised = "none" /\ out = <<>>)

\* C10 witness: split_html_content ended on a non-empty source with max_length 0
C10_Witness ==
    /\ entry = "split_html_content"
    /\ source # <<>>
    /\ max_length = 0
    /\ pc = "done"

\* sub occurs in s as a contiguous run
Contains(sub, s) ==
    \E i \in 0 .. (Len(s) - Len(sub)) : SubSeq(s, i + 1, i + Len(sub)) = sub

\* the position after the tag of s that closes the outermost element, reading
\* from position p with the open tags stk; Len(s) + 1 when none does
RECURSIVE RootEnd(_, _, _)
RootEnd(s, p, stk) ==
    IF p >= Len(s) THEN Len(s) + 1
    ELSE IF s[p + 1] # "<"
    THEN RootEnd(s, IF Find(s, "<", p) = -1 THEN Len(s) ELSE Find(s, "<", p), stk)
    ELSE LET e == Find(s, ">", p)
             inside == SubSeq(s, p + 2, e)
         IN  IF Head(inside) = "/"
             THEN (IF Len(stk) = 1 THEN e + 1
                   ELSE RootEnd(s, e + 1, SubSeq(stk, 1, Len(stk) - 1)))
             ELSE IF inside[Len(inside)] = "/" THEN RootEnd(s, e + 1, stk)
             ELSE RootEnd(s, e + 1, Append(stk, SplitWs(inside)[1]))

\* the first tag of the trimmed s
RootTag(s) == SubSeq(Strip(s), 1, Find(Strip(s), ">", 0) + 1)

\* the name of the first tag of the trimmed s
RootName(s) == SplitWs(SubSeq(RootTag(s), 2, Len(RootTag(s)) - 1))[1]

\* the last tag of the trimmed s, for an s that ends with a tag
RECURSIVE LastTagFrom(_, _)
LastTagFrom(s, p) ==
    IF Find(s, "<", p + 1) = -1 THEN SubSeq(s, p + 1, Len(s))
    ELSE LastTagFrom(s, Find(s, "<", p + 1))

\* s is tag-balanced and all its non-whitespace content lies in one root element,
\* opened by the first tag and closed by the last one
RootEnclosed(s) ==
    LET t == Strip(s) IN
    /\ t # <<>>
    /\ TagBalanced(t)
    /\ Head(t) = "<"
    /\ t[Len(RootTag(s)) - 1] # "/"
    /\ RootEnd(t, 0, <<>>) = Len(t)

\* C11 as stated: for a source enclosed in a single root element, every fragment
\* yielded by split_html_content contains the root's raw opening tag and the
\* closing tag "</name>" of the root.
C11_RootTagsInEveryFragment ==
    (entry = "split_html_content" /\ RootEnclosed(source)) =>
        \A k \in 1 .. Len(out) :
            /\ Contains(RootTag(source), out[k])
            /\ Contains(<<"<", "/">> \o RootName(source) \o <<">">>, out[k])

\* C11 as amended: every fragment contains the root's raw opening tag and a
\* closing tag of the root: "</name>", or the closing tag the source itself ends
\* with.
C11_RootOpenedAndClosedInEveryFragment ==
    (entry = "split_html_content" /\ RootEnclosed(source)) =>
        \A k \in 1 .. Len(out) :
            /\ Contains(RootTag(source), out[k])
            /\ \/ Contains(<<"<", "/">> \o RootName(source) \o <<">">>, out[k])
               \/ Contains(LastTagFrom(Strip(source), 0), out[k])

\* C11 witness: a source enclosed in a root element came out in three fragments
C11_Witness ==
    /\ entry = "split_html_content"
    /\ RootEnclosed(source)
    /\ pc = "done"
    /\ Len(out) >= 3

\* C12: saved_tags has the length of stack and holds, position by position, the
\* name that stack holds.
C12_SavedTagsParallelToStack ==
    entry = "split_html_content" =>
        /\ Len(saved_tags) = Len(stack)
        /\ \A i \in 1 .. Len(stack) : saved_tags[i][2] = stack[i]

\* C12 witness: two tags were opened and the inner one closed again
C12_Witness ==
    /\ entry = "split_html_content"
    /\ source = <<"<", "a", ">", "<", "b", " ", "c", ">", "<", "/", "b", ">">>
    /\ pos = Len(source)
    /\ stack = << <<"a">> >>

\* C14: a closing tag whose name is the top of a non-empty stack pops stack and
\* saved_tags; any other closing tag leaves both unchanged; neither raises.
C14_ClosingTagPopsOnlyOnMatch ==
    [][(ProcessingTag /\ StartsWithSlash(ProcessedTagContent)) =>
          LET name == Tail(SplitWs(ProcessedTagContent)[1]) IN
          /\ pc' = "html"
          /\ IF stack # <<>> /\ stack[Len(stack)] = name
             THEN /\ stack' = SubSeq(stack, 1, Len(stack) - 1)
                  /\ saved_tags' = SubSeq(saved_tags, 1, Len(saved_tags) - 1)
             ELSE stack' = stack /\ saved_tags' = saved_tags]_vars

\* C14 witness: "</b>" was read while only "a" was open, and "a" is still open
C14_Witness ==
    /\ entry = "split_html_content"
    /\ pc = "html"
    /\ source = <<"<", "a", ">", "<", "/", "b", ">", "<", "/", "a", ">">>
    /\ pos = 7
    /\ stack = << <<"a">> >>

\* "</name>" for each entry of stk, the last entry first
ClosersInnermostFirst(stk) ==
    Join([i \in 1 .. Len(stk) |-> <<"<", "/">> \o stk[Len(stk) + 1 - i] \o <<">">>])

\* C16: get_tag_hierarchy returns the saved raw opening tags outermost first and
\* "</name>" for each stack entry innermost first, so that the closing markup
\* closes the opening markup tag by tag.
C16_TagHierarchy ==
    entry = "split_html_content" =>
        LET h == GetTagHierarchy(saved_tags, stack) IN
        /\ h[1] = Join([i \in 1 .. Len(saved_tags) |-> saved_tags[i][1]])
        /\ h[2] = ClosersInnermostFirst(stack)
        /\ TagBalanced(h[1] \o h[2])

\* C16 witness: "a" and, inside it, "b" (written with an attribute) are open
C16_Witness ==
    /\ entry = "split_html_content"
    /\ stack = << <<"a">>, <<"b">> >>
    /\ saved_tags[2][1] = <<"<", "b", " ", "c", ">">>

\* C17: processing a tag that ends with "/>" (and is no closing tag) leaves stack
\* and saved_tags unchanged and appends the raw tag to the current fragment; no
\* saved record is ever that of a tag ending with "/>".
C17_SelfClosingTagLeavesStack ==
    [][/\ (ProcessingTag /\ ProcessedTagContent # <<>>
              /\ Head(ProcessedTagContent) # "/"
              /\ ProcessedTagContent[Len(ProcessedTagContent)] = "/") =>
            /\ stack' = stack
            /\ saved_tags' = saved_tags
            /\ current_fragment'[Len(current_fragment')] = ProcessedTag
            /\ pc' = "html"
       /\ \A i \in 1 .. Len(saved_tags') :
              saved_tags'[i][1][Len(saved_tags'[i][1]) - 1] # "/"]_vars

\* C17 witness: "<d/>" was read inside "a" after a fragment had been yielded
C17_Witness ==
    /\ entry = "split_html_content"
    /\ pc = "html"
    /\ stack = << <<"a">> >>
    /\ Len(out) >= 1
    /\ current_fragment[Len(current_fragment)] = <<"<", "d", "/", ">">>

\* C20: whenever the HTML splitter is about to evaluate would_exceed_limit,
\* current_length is the byte length of the pieces of current_fragment.
C20_LengthMatchesFragment ==
    (entry = "split_html_content" /\ pc = "html") =>
        current_length = ByteLen(Join(current_fragment))

\* C20 witness: a fragment was yielded and the next one restarted from the
\* re-opened tags, with more of the source still to read
C20_Witness ==
    /\ entry = "split_html_content"
    /\ pc = "html"
    /\ pos < Len(source)
    /\ Len(out) >= 1
    /\ saved_tags # <<>>
    /\ current_length >= 5

\* the complete tags and the text runs that are not whitespace-only of s, in
\* order, from position p up to the end or to a "<" with no ">" after it
RECURSIVE SourceUnits(_, _)
SourceUnits(s, p) ==
    IF p >= Len(s) THEN <<>>
    ELSE IF s[p + 1] = "<"
    THEN (IF Find(s, ">", p) = -1 THEN <<>>
          ELSE <<SubSeq(s, p + 1, Find(s, ">", p) + 1)>>
               \o SourceUnits(s, Find(s, ">", p) + 1))
    ELSE LET q == IF Find(s, "<", p) = -1 THEN Len(s) ELSE Find(s, "<", p) IN
         (IF \A i \in (p + 1) .. q : IsSpace(s[i]) THEN <<>>
          ELSE <<SubSeq(s, p + 1, q)>>) \o SourceUnits(s, q)

\* fragment k is its re-opened tags, then whole tags and text runs of the
\* source, then its closing tags
FragmentIsUnits(k) ==
    out[k] = (IF k > 1 THEN RawTags(open_at_yield[k - 1]) ELSE <<>>)
             \o Join(units[k])
             \o ClosersInnermostFirst([i \in 1 .. Len(open_at_yield[k]) |->
                                           open_at_yield[k][i][2]])

\* C13: when split_html_content has ended, the tags and text runs its fragments
\* hold between their re-opened and closing tags are, in yield order, exactly the
\* complete tags and non-whitespace-only text runs of the source, each whole.
C13_UnitsPlacedOnceInOrder ==
    (entry = "split_html_content" /\ pc \in {"done", "raised"} /\ max_length > 0) =>
        /\ \A k \in 1 .. Len(out) : FragmentIsUnits(k)
        /\ Join(units) = SourceUnits(source, 0)

\* the same for the runs that end without an error
UnitsPlacedOnceInOrderWhenDone ==
    (entry = "split_html_content" /\ pc = "done" /\ max_length > 0) =>
        /\ \A k \in 1 .. Len(out) : FragmentIsUnits(k)
        /\ Join(units) = SourceUnits(source, 0)

\* the fragments hold, between their re-opened and closing tags, exactly the tags
\* and text runs of the source before pos
HoldsSourceBeforePos ==
    /\ \A k \in 1 .. Len(out) : FragmentIsUnits(k)
    /\ Join(units) = SourceUnits(SubSeq(source, 1, pos), 0)

\* C15: when the scan stands at a "<" with no ">" after it, the next step ends the
\* scan there: what is buffered is yielded with its closing tags as the last
\* fragment, after which the generator returns, and nothing from that "<" on is in
\* any fragment.
C15_TruncatedTagStopsScan ==
    [][/\ (pc = "html" /\ pos < Len(source) /\ source[pos + 1] = "<"
           /\ Find(source, ">", pos) = -1) =>
             /\ pc' = IF current_fragment # <<>> THEN "yield_116" ELSE "done"
             /\ pos' = pos
             /\ out' = IF current_fragment # <<>>
                       THEN Append(out, Join(current_fragment)
                                        \o ClosersInnermostFirst(stack))
                       ELSE out
             /\ HoldsSourceBeforePos'
       /\ pc = "yield_116" => (pc' = "done" /\ out' = out /\ pos' = pos)]_vars

\* C15 witness: the scan ended at a "<" with no ">" after it, inside an open tag,
\* and the buffered content was yielded
C15_Witness ==
    /\ entry = "split_html_content"
    /\ pc = "done"
    /\ pos < Len(source)
    /\ stack # <<>>
    /\ out # <<>>

\* C18: no yielded fragment is the empty string; every fragment of
\* split_html_content holds at least one tag or text run of the source between
\* its re-opened and closing tags, so there are at most as many fragments as the
\* source has tags and text runs.
C18_NoEmptyFragment ==
    /\ \A k \in 1 .. Len(out) : out[k] # <<>>
    /\ entry = "split_html_content" =>
           /\ \A k \in 1 .. Len(out) : units[k] # <<>> /\ FragmentIsUnits(k)
           /\ Len(out) <= Len(SourceUnits(source, 0))

\* C18 witness: split_html_content yielded one fragment per tag and text run of a
\* source of three of them
C18_Witness ==
    /\ entry = "split_html_content"
    /\ pc = "done"
    /\ Len(out) = 3
    /\ Len(SourceUnits(source, 0)) = 3

\* C19: for a string source and a positive max_length, every iteration of the
\* scan loop of split_html_content that does not end the scan moves pos strictly
\* forward, within the source (before its yield, when it has one), and as long as
\* the generator has neither returned nor raised, asking it for the next fragment
\* makes it take a step that changes its state; so it ends after at most one
\* iteration per character of the source.
C19_ScanAdvancesAndEnds ==
    /\ [][/\ (pc = "html" /\ pc' \in {"html", "yield_89", "yield_111"}) =>
               (pos < pos' /\ pos' <= Len(source))
          /\ pc \in {"yield_89", "yield_111"} =>
               (pc' \in {"html", "raised"} /\ pos' = pos)]_vars
    /\ [](pc \in {"done", "raised"} \/ ENABLED <<HtmlNext>>_vars)

\* C19 witness: a scan over a tag and a text run has reached the end of the
\* source and returned after yielding two fragments
C19_Witness ==
    /\ entry = "split_html_content"
    /\ pc = "done"
    /\ max_length > 0
    /\ pos = Len(source)
    /\ Len(SourceUnits(source, 0)) = 2
    /\ Len(out) = 2

====
